---------------------------- MODULE Spec2Model ----------------------------
(***************************************************************************)
(* Model of the agent-safe SPL SDK (sdk/rust): the S-expression policy     *)
(* parser, the bounded evaluator, the verifier facade and the signed       *)
(* token envelope.                                                         *)
(*                                                                         *)
(* Text is a sequence of one-character strings, so that trimming,          *)
(* tokenizing, formatting and the NUL-joined signing payload are computed  *)
(* character by character as the code computes them.  Ed25519 and SHA-256  *)
(* are symbolic: a signature records who signed what, a digest records     *)
(* what was hashed.                                                        *)
(***************************************************************************)
EXTENDS Integers, Sequences, FiniteSets, TLC

VARIABLES token, minted, pres, edits, out

state == <<token, minted, pres, edits, out>>

-----------------------------------------------------------------------------
(* Text helpers (Rust str methods).                                        *)

\* the NUL byte, written as its escape
NUL == "\\0"

\* the separators matched by tokenize (parser.rs:95)
TokenizerWs == {" ", "\n", "\t", "\r"}

\* char::is_whitespace as used by str::trim and split_whitespace: the
\* tokenizer's separators and the form feed (the other Unicode White_Space
\* characters are outside the model's alphabet)
IsWhitespace(c) == c \in TokenizerWs \cup {"\f"}

RECURSIVE trim_start(_)
trim_start(s) ==
    IF s # <<>> /\ IsWhitespace(Head(s)) THEN trim_start(Tail(s)) ELSE s

RECURSIVE trim_end(_)
trim_end(s) ==
    IF s # <<>> /\ IsWhitespace(s[Len(s)])
    THEN trim_end(SubSeq(s, 1, Len(s) - 1)) ELSE s

trim(s) == trim_end(trim_start(s))

\* str::split_whitespace: the maximal runs of non-whitespace characters
RECURSIVE split_ws_loop(_, _, _)
split_ws_loop(s, word, words) ==
    IF s = <<>>
    THEN IF word = <<>> THEN words ELSE Append(words, word)
    ELSE IF IsWhitespace(Head(s))
         THEN split_ws_loop(Tail(s), <<>>,
                            IF word = <<>> THEN words ELSE Append(words, word))
         ELSE split_ws_loop(Tail(s), Append(word, Head(s)), words)

split_whitespace(s) == split_ws_loop(s, <<>>, <<>>)

\* [T]::join for strings
RECURSIVE join(_, _)
join(parts, sep) ==
    IF parts = <<>> THEN <<>>
    ELSE IF Len(parts) = 1 THEN parts[1]
    ELSE parts[1] \o sep \o join(Tail(parts), sep)

\* str::replace(from, to), leftmost non-overlapping matches
RECURSIVE replace(_, _, _)
replace(s, from, to) ==
    IF Len(s) < Len(from) \/ from = <<>> THEN s
    ELSE IF SubSeq(s, 1, Len(from)) = from
         THEN to \o replace(SubSeq(s, Len(from) + 1, Len(s)), from, to)
         ELSE <<Head(s)>> \o replace(Tail(s), from, to)

\* the ASCII order of the printable characters, for the byte-wise comparison
\* of Strings (String: Ord)
Ascii ==
    <<"\t", "\n", "\f", "\r",
      " ", "!", "\"", "#", "$", "%", "&", "'", "(", ")", "*", "+", ",", "-",
      ".", "/", "0", "1", "2", "3", "4", "5", "6", "7", "8", "9", ":", ";",
      "<", "=", ">", "?", "@", "A", "B", "C", "D", "E", "F", "G", "H", "I",
      "J", "K", "L", "M", "N", "O", "P", "Q", "R", "S", "T", "U", "V", "W",
      "X", "Y", "Z", "[", "\\", "]", "^", "_", "a", "b", "c", "d", "e",
      "f", "g", "h", "i", "j", "k", "l", "m", "n", "o", "p", "q", "r", "s",
      "t", "u", "v", "w", "x", "y", "z", "{", "|", "}", "~">>

CharCode(c) ==
    IF \E i \in 1..Len(Ascii) : Ascii[i] = c
    THEN CHOOSE i \in 1..Len(Ascii) : Ascii[i] = c
    ELSE 0

RECURSIVE str_lt(_, _)
str_lt(a, b) ==
    IF b = <<>> THEN FALSE
    ELSE IF a = <<>> THEN TRUE
    ELSE IF Head(a) = Head(b) THEN str_lt(Tail(a), Tail(b))
    ELSE CharCode(Head(a)) < CharCode(Head(b))

-----------------------------------------------------------------------------
(* types.rs: Node, Display, truthiness, SplError.                          *)

\* One record shape for all six variants of enum Node, so that any two
\* nodes compare: t is the variant, the other fields carry its payload.
\* A Number is an f64: n is its (integer) value when sp = "fin"; sp is
\* "inf", "-inf" or "nan" for the non-finite values.
Bool(b)   == [t |-> "Bool", b |-> b, n |-> 0, sp |-> "fin", s |-> <<>>, items |-> <<>>]
Number(n) == [t |-> "Number", b |-> FALSE, n |-> n, sp |-> "fin", s |-> <<>>, items |-> <<>>]
NumberSp(sp) == [t |-> "Number", b |-> FALSE, n |-> 0, sp |-> sp, s |-> <<>>, items |-> <<>>]
Str(s)    == [t |-> "Str", b |-> FALSE, n |-> 0, sp |-> "fin", s |-> s, items |-> <<>>]
Symbol(s) == [t |-> "Symbol", b |-> FALSE, n |-> 0, sp |-> "fin", s |-> s, items |-> <<>>]
List(items) == [t |-> "List", b |-> FALSE, n |-> 0, sp |-> "fin", s |-> <<>>, items |-> items]
Nil       == [t |-> "Nil", b |-> FALSE, n |-> 0, sp |-> "fin", s |-> <<>>, items |-> <<>>]

\* Result<_, SplError>, and a panic (an abort that is no Result at all)
Ok(v)     == [k |-> "ok", v |-> v, e |-> "", d |-> <<>>]
Err(e)    == [k |-> "err", v |-> Nil, e |-> e, d |-> <<>>]
ErrD(e, d) == [k |-> "err", v |-> Nil, e |-> e, d |-> d]
Panic(e)  == [k |-> "panic", v |-> Nil, e |-> e, d |-> <<>>]

is_truthy(node) ==
    CASE node.t = "Bool"   -> node.b
      [] node.t = "Nil"    -> FALSE
      [] node.t = "Number" -> ~(node.sp = "fin" /\ node.n = 0)
      [] OTHER             -> TRUE

\* format!("{n}") of an integer-valued f64: decimal digits, no fraction
Digits == <<"0", "1", "2", "3", "4", "5", "6", "7", "8", "9">>

RECURSIVE fmt_nat(_)
fmt_nat(n) ==
    IF n < 10 THEN <<Digits[n + 1]>>
    ELSE fmt_nat(n \div 10) \o <<Digits[(n % 10) + 1]>>

fmt_f64(node) ==
    CASE node.sp = "inf"  -> <<"i", "n", "f">>
      [] node.sp = "-inf" -> <<"-", "i", "n", "f">>
      [] node.sp = "nan"  -> <<"N", "a", "N">>
      [] OTHER -> IF node.n < 0 THEN <<"-">> \o fmt_nat(-node.n)
                  ELSE fmt_nat(node.n)

RECURSIVE display(_)
RECURSIVE display_items(_, _)
display_items(items, i) ==
    IF i > Len(items) THEN <<>>
    ELSE (IF i > 1 THEN <<" ">> ELSE <<>>) \o display(items[i])
         \o display_items(items, i + 1)

display(node) ==
    CASE node.t = "Bool"   -> IF node.b THEN <<"#", "t">> ELSE <<"#", "f">>
      [] node.t = "Number" -> fmt_f64(node)
      [] node.t = "Str"    -> <<"\"">> \o node.s \o <<"\"">>
      [] node.t = "Symbol" -> node.s
      [] node.t = "List"   -> <<"(">> \o display_items(node.items, 1) \o <<")">>
      [] OTHER             -> <<"n", "i", "l">>

as_f64(node) == IF node.t = "Number" THEN node ELSE Number(0)

-----------------------------------------------------------------------------
(* parser.rs                                                               *)

MAX_POLICY_BYTES == 65536

IsDigit(c) == \E i \in 1..10 : Digits[i] = c

DigitVal(c) == (CHOOSE i \in 1..10 : Digits[i] = c) - 1

RECURSIVE nat_of(_, _)
nat_of(ds, acc) ==
    IF ds = <<>> THEN acc ELSE nat_of(Tail(ds), acc * 10 + DigitVal(Head(ds)))

\* char::to_ascii_lowercase on the letters of "infinity" and "nan"
to_lower(c) ==
    CASE c = "I" -> "i" [] c = "N" -> "n" [] c = "F" -> "f" [] c = "A" -> "a"
      [] c = "T" -> "t" [] c = "Y" -> "y" [] OTHER -> c

\* str::parse::<f64>: an optional sign, then decimal digits, or one of
\* "inf", "infinity", "nan" in any case.  Literals with a fraction or an
\* exponent are f64 literals too; no text of the model contains one.
parse_f64(tok) ==
    LET signed == tok # <<>> /\ Head(tok) \in {"-", "+"}
        neg    == tok # <<>> /\ Head(tok) = "-"
        body   == IF signed THEN Tail(tok) ELSE tok
        low    == [i \in 1..Len(body) |-> to_lower(body[i])]
    IN  IF body # <<>> /\ \A i \in 1..Len(body) : IsDigit(body[i])
        THEN Ok(Number(IF neg THEN -nat_of(body, 0) ELSE nat_of(body, 0)))
        ELSE IF low \in {<<"i", "n", "f">>,
                         <<"i", "n", "f", "i", "n", "i", "t", "y">>}
        THEN Ok(NumberSp(IF neg THEN "-inf" ELSE "inf"))
        ELSE IF low = <<"n", "a", "n">>
        THEN Ok(NumberSp("nan"))
        ELSE Err("invalid float literal")

parse_atom(tok) ==
    IF tok = <<"#", "t">> THEN Bool(TRUE)
    ELSE IF tok = <<"#", "f">> THEN Bool(FALSE)
    ELSE IF parse_f64(tok).k = "ok" THEN parse_f64(tok).v
    ELSE IF Len(tok) >= 2 /\ Head(tok) = "\"" /\ tok[Len(tok)] = "\""
         THEN Str(replace(SubSeq(tok, 2, Len(tok) - 1), <<"\\", "\"">>, <<"\"">>))
    ELSE Symbol(tok)

\* flush_buf: the trimmed buffer's whitespace-separated words become tokens
flush_buf(buf, tokens) == tokens \o split_whitespace(trim(buf))

\* tokenize's loop over src.chars(), with its locals tokens, buf, in_str
RECURSIVE tokenize_loop(_, _, _, _)
tokenize_loop(src, tokens, buf, in_str) ==
    IF src = <<>> THEN flush_buf(buf, tokens)
    ELSE LET ch == Head(src)
             rest == Tail(src)
         IN  IF in_str
             THEN IF ch = "\""
                  THEN tokenize_loop(rest, Append(tokens, Append(buf, ch)), <<>>, FALSE)
                  ELSE tokenize_loop(rest, tokens, Append(buf, ch), TRUE)
             ELSE IF ch = "\""
                  THEN tokenize_loop(rest, flush_buf(buf, tokens), <<"\"">>, TRUE)
             ELSE IF ch \in {"(", ")"}
                  THEN tokenize_loop(rest, Append(flush_buf(buf, tokens), <<ch>>), <<>>, FALSE)
             ELSE IF ch \in TokenizerWs
                  THEN tokenize_loop(rest, flush_buf(buf, tokens), <<>>, FALSE)
             ELSE tokenize_loop(rest, tokens, Append(buf, ch), FALSE)

tokenize(src) == tokenize_loop(src, <<>>, <<>>, FALSE)

\* parse_expr returns the node (or the error) and the advanced position;
\* positions are 1-based here, 0-based in the code
RECURSIVE parse_expr(_, _)
RECURSIVE parse_list_loop(_, _, _)
parse_list_loop(tokens, pos, items) ==
    IF pos > Len(tokens) THEN [r |-> Err("unterminated ("), pos |-> pos]
    ELSE IF tokens[pos] = <<")">> THEN [r |-> Ok(List(items)), pos |-> pos + 1]
    ELSE LET sub == parse_expr(tokens, pos)
         IN  IF sub.r.k # "ok" THEN sub
             ELSE parse_list_loop(tokens, sub.pos, Append(items, sub.r.v))

parse_expr(tokens, pos) ==
    IF pos > Len(tokens) THEN [r |-> Err("unexpected EOF"), pos |-> pos]
    ELSE LET tok == tokens[pos]
         IN  IF tok = <<"(">> THEN parse_list_loop(tokens, pos + 1, <<>>)
             ELSE IF tok = <<")">> THEN [r |-> Err("unexpected )"), pos |-> pos + 1]
             ELSE [r |-> Ok(parse_atom(tok)), pos |-> pos + 1]

\* a plausible slip: the tokens after the first expression ignored
parse_TrailingIgnored(src) ==
    IF Len(src) > MAX_POLICY_BYTES
    THEN Err("policy exceeds maximum size of 65536 bytes")
    ELSE LET tokens == tokenize(trim(src))
         IN  IF tokens = <<>> THEN Err("unexpected EOF")
             ELSE parse_expr(tokens, 1).r

parse(src) ==
    IF Len(src) > MAX_POLICY_BYTES
    THEN Err("policy exceeds maximum size of 65536 bytes")
    ELSE LET tokens == tokenize(trim(src))
         IN  IF tokens = <<>> THEN Err("unexpected EOF")
             ELSE LET res == parse_expr(tokens, 1)
                  IN  IF res.r.k # "ok" THEN res.r
                      ELSE IF res.pos # Len(tokens) + 1 THEN Err("extra tokens")
                      ELSE res.r

-----------------------------------------------------------------------------
(* evaluator.rs                                                            *)

\* the string literals of the evaluator, as text
S_and == <<"a", "n", "d">>
S_or == <<"o", "r">>
S_not == <<"n", "o", "t">>
S_eq == <<"=">>
S_le == <<"<", "=">>
S_lt == <<"<">>
S_ge == <<">", "=">>
S_gt == <<">">>
S_member == <<"m", "e", "m", "b", "e", "r">>
S_in == <<"i", "n">>
S_subset == <<"s", "u", "b", "s", "e", "t", "?">>
S_before == <<"b", "e", "f", "o", "r", "e">>
S_get == <<"g", "e", "t">>
S_tuple == <<"t", "u", "p", "l", "e">>
S_per_day_count == <<"p", "e", "r", "-", "d", "a", "y", "-", "c", "o", "u", "n", "t">>
S_dpop_ok == <<"d", "p", "o", "p", "_", "o", "k", "?">>
S_merkle_ok == <<"m", "e", "r", "k", "l", "e", "_", "o", "k", "?">>
S_vrf_ok == <<"v", "r", "f", "_", "o", "k", "?">>
S_thresh_ok == <<"t", "h", "r", "e", "s", "h", "_", "o", "k", "?">>
S_hash_t == <<"#", "t">>
S_hash_f == <<"#", "f">>
S_req == <<"r", "e", "q">>
S_now == <<"n", "o", "w">>
S_req_marker == <<"_", "_", "r", "e", "q", "_", "_">>
S_true == <<"t", "r", "u", "e">>
S_false == <<"f", "a", "l", "s", "e">>
S_nil == <<"n", "i", "l">>

MAX_DEPTH == 64

\* HashMap::get(key).cloned()
MapHas(m, key) == key \in DOMAIN m

node_to_string(node) ==
    CASE node.t = "Bool"   -> IF node.b THEN S_true ELSE S_false
      [] node.t = "Number" -> fmt_f64(node)
      [] node.t = "Str"    -> node.s
      [] node.t = "Symbol" -> node.s
      [] node.t = "Nil"    -> S_nil
      [] OTHER             -> display(node)

\* f64 == f64: NaN equals nothing
f64_eq(x, y) == x.sp # "nan" /\ y.sp # "nan" /\ x.sp = y.sp /\ (x.sp = "fin" => x.n = y.n)

\* f64 < f64: false when either is NaN
f64_lt(x, y) ==
    /\ x.sp # "nan" /\ y.sp # "nan"
    /\ \/ x.sp = "-inf" /\ y.sp # "-inf"
       \/ x.sp = "fin" /\ y.sp = "inf"
       \/ x.sp = "fin" /\ y.sp = "fin" /\ x.n < y.n

node_eq(a, b) ==
    CASE a.t = "Bool" /\ b.t = "Bool"     -> a.b = b.b
      [] a.t = "Number" /\ b.t = "Number" -> f64_eq(a, b)
      [] a.t = "Str" /\ b.t = "Str"       -> a.s = b.s
      [] a.t = "Symbol" /\ b.t = "Symbol" -> a.s = b.s
      [] a.t = "Str" /\ b.t = "Symbol"    -> a.s = b.s
      [] a.t = "Symbol" /\ b.t = "Str"    -> a.s = b.s
      [] a.t = "Nil" /\ b.t = "Nil"       -> TRUE
      [] OTHER -> node_to_string(a) = node_to_string(b)

resolve_symbol(name, env) ==
    IF name = S_hash_t THEN Ok(Bool(TRUE))
    ELSE IF name = S_hash_f THEN Ok(Bool(FALSE))
    ELSE IF name = S_req THEN Ok(Str(S_req_marker))
    ELSE IF name = S_now
         THEN IF MapHas(env.vars, S_now) THEN Ok(env.vars[S_now]) ELSE Ok(Symbol(name))
    ELSE IF MapHas(env.vars, name) THEN Ok(env.vars[name]) ELSE Ok(Symbol(name))

\* EvalState {gas, depth}, with two history fields the code does not have:
\* calls logs the host callbacks invoked, in order, and deepest is the
\* greatest nesting level (root = 1) of a node eval has entered.
NewState(max_gas) == [gas |-> max_gas, depth |-> 0, calls |-> <<>>, deepest |-> 0]

Called(st, name) == IF name = "" THEN st ELSE [st EXCEPT !.calls = Append(@, name)]

(***************************************************************************)
(* The recursion of eval is run on an explicit call stack.  A frame is one *)
(* active eval_op call: its operator, its arguments and the values of the  *)
(* arguments evaluated so far.  A machine state is                         *)
(*   mode = "call": eval(node, env, st) is about to run under the frames   *)
(*                  of stack;                                              *)
(*   mode = "ret":  an eval call has returned r (or panicked, r.k =        *)
(*                  "panic") to the topmost frame of stack;                *)
(*   mode = "done": the outermost eval has returned r to eval_policy.      *)
(***************************************************************************)
Frame(op, args, vals) == [op |-> op, args |-> args, vals |-> vals]

Machine(mode, node, r, stack, st) ==
    [mode |-> mode, node |-> node, r |-> r, stack |-> stack, st |-> st]

\* what an operator does next, given the values of the arguments evaluated
\* so far: evaluate args[j] (1-based), return r after invoking the host
\* callback call (if any), or panic on an index out of bounds
EvalArg(args, j) ==
    IF j > Len(args) THEN [k |-> "panic", j |-> j, r |-> Panic("index out of bounds"), call |-> ""]
    ELSE [k |-> "arg", j |-> j, r |-> Ok(Nil), call |-> ""]

Return(r) == [k |-> "ret", j |-> 0, r |-> r, call |-> ""]

ReturnCalled(r, call) == [k |-> "ret", j |-> 0, r |-> r, call |-> call]

\* let a = eval(&args[0], ..)?; let b = eval(&args[1], ..)?; then result
two_args(args, vals, result) ==
    IF Len(vals) < 2 THEN EvalArg(args, Len(vals) + 1) ELSE result

\* a plausible slip: every argument evaluated before the verdict
and_arm_NoShortCircuit(args, vals) ==
    IF Len(vals) < Len(args) THEN EvalArg(args, Len(vals) + 1)
    ELSE Return(Ok(Bool(\A i \in 1..Len(vals) : is_truthy(vals[i]))))

\* "and": for a in args { if !eval(a)?.is_truthy() { return false } } true
and_arm(args, vals) ==
    IF vals # <<>> /\ ~is_truthy(vals[Len(vals)]) THEN Return(Ok(Bool(FALSE)))
    ELSE IF Len(vals) = Len(args) THEN Return(Ok(Bool(TRUE)))
    ELSE EvalArg(args, Len(vals) + 1)

\* "or": for a in args { if eval(a)?.is_truthy() { return true } } false
or_arm(args, vals) ==
    IF vals # <<>> /\ is_truthy(vals[Len(vals)]) THEN Return(Ok(Bool(TRUE)))
    ELSE IF Len(vals) = Len(args) THEN Return(Ok(Bool(FALSE)))
    ELSE EvalArg(args, Len(vals) + 1)

not_arm(args, vals) ==
    IF vals = <<>> THEN EvalArg(args, 1)
    ELSE Return(Ok(Bool(~is_truthy(vals[1]))))

eq_arm(args, vals) ==
    two_args(args, vals, Return(Ok(Bool(node_eq(vals[1], vals[2])))))

cmp_arm(op, args, vals) ==
    two_args(args, vals,
             LET a == as_f64(vals[1])
                 b == as_f64(vals[2])
             IN  Return(Ok(Bool(CASE op = S_le -> f64_lt(a, b) \/ f64_eq(a, b)
                                  [] op = S_lt -> f64_lt(a, b)
                                  [] op = S_ge -> f64_lt(b, a) \/ f64_eq(a, b)
                                  [] OTHER     -> f64_lt(b, a)))))

member_arm(args, vals) ==
    two_args(args, vals,
             IF vals[2].t = "List"
             THEN Return(Ok(Bool(\E j \in 1..Len(vals[2].items) :
                                    node_eq(vals[2].items[j], vals[1]))))
             ELSE Return(Ok(Bool(FALSE))))

subset_arm(args, vals) ==
    two_args(args, vals,
             IF vals[1].t = "List" /\ vals[2].t = "List"
             THEN Return(Ok(Bool(\A i \in 1..Len(vals[1].items) :
                                   \E j \in 1..Len(vals[2].items) :
                                      node_eq(vals[1].items[i], vals[2].items[j]))))
             ELSE Return(Ok(Bool(FALSE))))

before_arm(args, vals) ==
    two_args(args, vals,
             Return(Ok(Bool(str_lt(node_to_string(vals[1]), node_to_string(vals[2]))))))

\* a plausible slip: "get" evaluating both of its arguments
get_arm_BothArgs(args, vals, env) ==
    IF Len(vals) < 2 THEN EvalArg(args, Len(vals) + 1)
    ELSE IF vals[2].t # "Str" THEN Return(Ok(Nil))
    ELSE IF args[1].t = "Symbol" /\ args[1].s = S_req
         THEN Return(Ok(IF MapHas(env.req, vals[2].s) THEN env.req[vals[2].s] ELSE Nil))
    ELSE Return(Ok(Nil))

\* "get" evaluates its second argument only; the first is matched as written
get_arm(args, vals, env) ==
    IF vals = <<>> THEN EvalArg(args, 2)
    ELSE IF vals[1].t # "Str" THEN Return(Ok(Nil))
    ELSE IF args[1].t = "Symbol" /\ args[1].s = S_req
         THEN Return(Ok(IF MapHas(env.req, vals[1].s) THEN env.req[vals[1].s] ELSE Nil))
    ELSE Return(Ok(Nil))

tuple_arm(args, vals) ==
    IF Len(vals) < Len(args) THEN EvalArg(args, Len(vals) + 1)
    ELSE Return(Ok(List(vals)))

per_day_count_arm(args, vals, env) ==
    two_args(args, vals, ReturnCalled(Ok(Number(env.per_day_count)), "per_day_count"))

merkle_ok_arm(args, vals, env) ==
    IF Len(vals) < Len(args) THEN EvalArg(args, Len(vals) + 1)
    ELSE ReturnCalled(Ok(Bool(env.crypto.merkle_ok)), "merkle_ok")

vrf_ok_arm(args, vals, env) ==
    two_args(args, vals, ReturnCalled(Ok(Bool(env.crypto.vrf_ok)), "vrf_ok"))

\* the match of eval_op
eval_op(op, args, vals, env) ==
    CASE op = S_and -> and_arm(args, vals)
      [] op = S_or  -> or_arm(args, vals)
      [] op = S_not -> not_arm(args, vals)
      [] op = S_eq  -> eq_arm(args, vals)
      [] op \in {S_le, S_lt, S_ge, S_gt} -> cmp_arm(op, args, vals)
      [] op \in {S_member, S_in} -> member_arm(args, vals)
      [] op = S_subset -> subset_arm(args, vals)
      [] op = S_before -> before_arm(args, vals)
      [] op = S_get -> get_arm(args, vals, env)
      [] op = S_tuple -> tuple_arm(args, vals)
      [] op = S_per_day_count -> per_day_count_arm(args, vals, env)
      [] op = S_dpop_ok -> ReturnCalled(Ok(Bool(env.crypto.dpop_ok)), "dpop_ok")
      [] op = S_merkle_ok -> merkle_ok_arm(args, vals, env)
      [] op = S_vrf_ok -> vrf_ok_arm(args, vals, env)
      [] op = S_thresh_ok -> ReturnCalled(Ok(Bool(env.crypto.thresh_ok)), "thresh_ok")
      [] OTHER -> Return(ErrD("Unknown op", op))

\* a plausible slip: a return path that leaves the depth as it is
eval_exit_NoDecrement(r, stack, st) == Machine("ret", Nil, r, stack, st)

\* the end of eval: st.depth -= 1; result
eval_exit(r, stack, st) ==
    Machine("ret", Nil, r, stack, [st EXCEPT !.depth = @ - 1])

\* eval_op running in frame (op, args, vals) under stack: it calls eval on
\* its next argument, returns through eval_inner to the end of eval, or
\* panics (a panic unwinds: nothing after it runs)
run_op(op, args, vals, stack, env, st) ==
    LET next == eval_op(op, args, vals, env)
    IN  CASE next.k = "arg" ->
               Machine("call", args[next.j], Ok(Nil),
                       Append(stack, Frame(op, args, vals)), st)
          [] next.k = "panic" -> Machine("ret", Nil, next.r, stack, st)
          [] OTHER -> eval_exit(next.r, stack, Called(st, next.call))

eval_inner(node, stack, env, st) ==
    IF node.t = "List" /\ node.items = <<>> THEN eval_exit(Ok(Nil), stack, st)
    ELSE IF node.t = "List"
         THEN IF node.items[1].t # "Symbol"
              THEN eval_exit(Err("operator must be a symbol"), stack, st)
              ELSE run_op(node.items[1].s, Tail(node.items), <<>>, stack, env, st)
    ELSE IF node.t = "Symbol" THEN eval_exit(resolve_symbol(node.s, env), stack, st)
    ELSE eval_exit(Ok(node), stack, st)

\* a plausible slip: gas charged twice per node
eval_GasChargedTwice(node, stack, env, st) ==
    LET st1 == [st EXCEPT !.gas = @ - 2]
    IN  IF st1.gas < 0
        THEN Machine("ret", Nil, Err("gas budget exceeded"), stack, st1)
        ELSE LET level == Len(stack) + 1
                 st2 == [st1 EXCEPT !.depth = @ + 1,
                                    !.deepest = IF level > @ THEN level ELSE @]
             IN  IF st2.depth > MAX_DEPTH
                 THEN Machine("ret", Nil, Err("max nesting depth exceeded"), stack,
                              [st2 EXCEPT !.depth = @ - 1])
                 ELSE eval_inner(node, stack, env, st2)

\* a plausible slip: the budget overdrawn by one before the error
eval_GasSlack(node, stack, env, st) ==
    LET st1 == [st EXCEPT !.gas = @ - 1]
    IN  IF st1.gas < -1
        THEN Machine("ret", Nil, Err("gas budget exceeded"), stack, st1)
        ELSE LET level == Len(stack) + 1
                 st2 == [st1 EXCEPT !.depth = @ + 1,
                                    !.deepest = IF level > @ THEN level ELSE @]
             IN  IF st2.depth > MAX_DEPTH
                 THEN Machine("ret", Nil, Err("max nesting depth exceeded"), stack,
                              [st2 EXCEPT !.depth = @ - 1])
                 ELSE eval_inner(node, stack, env, st2)

\* eval(node, env, st), entered under the frames of stack
eval(node, stack, env, st) ==
    LET st1 == [st EXCEPT !.gas = @ - 1]
    IN  IF st1.gas < 0
        THEN Machine("ret", Nil, Err("gas budget exceeded"), stack, st1)
        ELSE LET level == Len(stack) + 1
                 st2 == [st1 EXCEPT !.depth = @ + 1,
                                    !.deepest = IF level > @ THEN level ELSE @]
             IN  IF st2.depth > MAX_DEPTH
                 THEN Machine("ret", Nil, Err("max nesting depth exceeded"), stack,
                              [st2 EXCEPT !.depth = @ - 1])
                 ELSE eval_inner(node, stack, env, st2)

\* an eval call made by eval_op has returned r: `?` passes an error on to
\* the end of the enclosing eval, a panic goes on unwinding, a value is
\* taken and eval_op goes on
eval_resume(m, env) ==
    LET frame == m.stack[Len(m.stack)]
        below == SubSeq(m.stack, 1, Len(m.stack) - 1)
    IN  CASE m.r.k = "panic" -> Machine("ret", Nil, m.r, below, m.st)
          [] m.r.k = "err"   -> eval_exit(m.r, below, m.st)
          [] OTHER -> run_op(frame.op, frame.args, Append(frame.vals, m.r.v),
                             below, env, m.st)

\* one step of an evaluation
eval_step(m, env) ==
    CASE m.mode = "call" -> eval(m.node, m.stack, env, m.st)
      [] m.mode = "ret" /\ m.stack # <<>> -> eval_resume(m, env)
      [] m.mode = "ret" /\ m.stack = <<>> -> Machine("done", Nil, m.r, <<>>, m.st)
      [] OTHER -> m

\* eval_policy's first lines: the initial EvalState and the call of eval
eval_start(ast, env) == Machine("call", ast, Ok(Nil), <<>>, NewState(env.max_gas))

RECURSIVE eval_to_end(_, _)
eval_to_end(m, env) ==
    IF m.mode = "done" THEN m ELSE eval_to_end(eval_step(m, env), env)

\* eval_policy with the final EvalState kept beside the result
eval_run(ast, env) ==
    LET m == eval_to_end(eval_start(ast, env), env) IN [r |-> m.r, st |-> m.st]

eval_policy(ast, env) == eval_run(ast, env).r

-----------------------------------------------------------------------------
(* verifier.rs                                                             *)

\* VerifyResult
VerifyResult(allow) == [allow |-> allow, obligations |-> <<>>]

-----------------------------------------------------------------------------
(* crypto.rs: Ed25519 and SHA-256, symbolically.                           *)

\* A message is a byte string or a digest: h counts the SHA-256
\* applications over data, so sha256 is injective and never the identity.
Bytes(data) == [h |-> 0, data |-> data]

sha256(m) == [h |-> m.h + 1, data |-> m.data]

\* Byte strings that are keys or signatures: a 32-byte seed, the 32-byte
\* verifying key derived from a seed, the 64-byte signature a seed makes
\* over a message, and n bytes of anything else.
SeedBytes(id)     == [ty |-> "seed", id |-> id, msg |-> Bytes(<<>>)]
PubBytes(id)      == [ty |-> "pub", id |-> id, msg |-> Bytes(<<>>)]
SigBytes(id, msg) == [ty |-> "sig", id |-> id, msg |-> msg]
JunkBytes(n)      == [ty |-> "junk", id |-> n, msg |-> Bytes(<<>>)]

ByteLen(b) ==
    CASE b.ty = "sig"  -> 64
      [] b.ty = "junk" -> b.id
      [] OTHER         -> 32

\* hex::encode / hex::decode: a string either is the hex of some bytes or
\* does not decode
hex_encode(b) == [hex |-> TRUE, bytes |-> b]

NotHex == [hex |-> FALSE, bytes |-> JunkBytes(0)]

hex_decode(h) == IF h.hex THEN Ok(h.bytes) ELSE Err("invalid hex")

\* SigningKey::from_bytes(seed).verifying_key() and SigningKey::sign
verifying_key(seed) == PubBytes(seed.id)

sign(seed, msg) == SigBytes(seed.id, msg)

\* VerifyingKey::verify_strict: only the signature made over this very
\* message by the seed of this key verifies
verify_strict(key, message, sig) ==
    sig.ty = "sig" /\ key.ty = "pub" /\ sig.id = key.id /\ sig.msg = message

verify_ed25519(message, signature_hex, public_key_hex) ==
    IF ~signature_hex.hex THEN FALSE
    ELSE IF ~public_key_hex.hex THEN FALSE
    ELSE IF ByteLen(signature_hex.bytes) # 64 THEN FALSE
    ELSE IF ByteLen(public_key_hex.bytes) # 32 THEN FALSE
    ELSE verify_strict(public_key_hex.bytes, message, signature_hex.bytes)

\* the loop of verify_hash_chain: current = sha256(current), steps times
RECURSIVE hash_times(_, _)
hash_times(current, steps) ==
    IF steps = 0 THEN current ELSE hash_times(sha256(current), steps - 1)

\* What a call of verify_hash_chain comes to: the bool it returns, a panic,
\* or a loop over a wrapped-around step count (v is then FALSE and short is
\* how far the count is below 2^64).
Returned(v)    == [k |-> "returned", v |-> v, short |-> 0]
Panicked       == [k |-> "panic", v |-> FALSE, short |-> 0]
Wrapped(short) == [k |-> "wrapped", v |-> FALSE, short |-> short]

\* chain_length - index on usize, never guarded: when index > chain_length
\* a build with overflow checks panics ("attempt to subtract with
\* overflow") and a build without them wraps to 2^64 - (index - chain_length)
verify_hash_chain(commitment, preimage_hex, index, chain_length, overflow_checks) ==
    IF hex_decode(preimage_hex).k # "ok" THEN Returned(FALSE)
    ELSE IF chain_length < index
         THEN IF overflow_checks THEN Panicked ELSE Wrapped(index - chain_length)
    ELSE Returned(hex_encode(hash_times(hex_decode(preimage_hex).v, chain_length - index))
                  = commitment)

-----------------------------------------------------------------------------
(* token.rs                                                                *)

\* Option<String> of text, and Option<String> of a hex string
None      == [some |-> FALSE, v |-> <<>>]
Some(v)   == [some |-> TRUE, v |-> v]
NoneHex   == [some |-> FALSE, v |-> NotHex]
SomeHex(h) == [some |-> TRUE, v |-> h]

\* Option<String> of an error message: msg is the message, d the text
\* interpolated into it
NoError   == [some |-> FALSE, msg |-> "", d |-> <<>>]
SomeError(msg, d) == [some |-> TRUE, msg |-> msg, d |-> d]

\* as_deref().unwrap_or("")
unwrap_or_empty(o) == IF o.some THEN o.v ELSE <<>>

\* a plausible slip: the policy joined as given, not trimmed
signing_payload_NoTrim(policy, merkle_root, hash_chain_commitment, sealed, expires) ==
    LET parts == <<policy,
                   unwrap_or_empty(merkle_root),
                   unwrap_or_empty(hash_chain_commitment),
                   IF sealed THEN <<"1">> ELSE <<"0">>,
                   unwrap_or_empty(expires)>>
    IN  Bytes(join(parts, <<NUL>>))

signing_payload(policy, merkle_root, hash_chain_commitment, sealed, expires) ==
    LET parts == <<trim(policy),
                   unwrap_or_empty(merkle_root),
                   unwrap_or_empty(hash_chain_commitment),
                   IF sealed THEN <<"1">> ELSE <<"0">>,
                   unwrap_or_empty(expires)>>
    IN  Bytes(join(parts, <<NUL>>))

Token(version, policy, merkle_root, hash_chain_commitment, sealed, expires, public_key, signature, pop_key) ==
    [version |-> version, policy |-> policy, merkle_root |-> merkle_root,
     hash_chain_commitment |-> hash_chain_commitment, sealed |-> sealed,
     expires |-> expires, public_key |-> public_key, signature |-> signature,
     pop_key |-> pop_key]

MintOptions(merkle_root, hash_chain_commitment, sealed, expires, pop_key) ==
    [merkle_root |-> merkle_root, hash_chain_commitment |-> hash_chain_commitment,
     sealed |-> sealed, expires |-> expires, pop_key |-> pop_key]

\* the Token of a failed mint is a placeholder: k says whether there is one
NoTokenValue ==
    Token("", <<>>, None, None, FALSE, None, NotHex, NotHex, NoneHex)

mint(policy, private_key_hex, opts) ==
    IF ~private_key_hex.hex
    THEN [k |-> "err", e |-> "invalid private key hex", tok |-> NoTokenValue]
    ELSE IF ~(private_key_hex.bytes.ty = "seed" /\ ByteLen(private_key_hex.bytes) = 32)
    THEN [k |-> "err", e |-> "private key must be 32 bytes", tok |-> NoTokenValue]
    ELSE LET seed == private_key_hex.bytes
             payload == signing_payload(policy, opts.merkle_root,
                                        opts.hash_chain_commitment, opts.sealed,
                                        opts.expires)
             signature == sign(seed, payload)
         IN  [k |-> "ok", e |-> "",
              tok |-> Token("0.1.0", trim(policy), opts.merkle_root,
                            opts.hash_chain_commitment, opts.sealed, opts.expires,
                            hex_encode(verifying_key(seed)), hex_encode(signature),
                            opts.pop_key)]

create_presentation_signature(tok, agent_private_key_hex) ==
    IF ~agent_private_key_hex.hex
    THEN [k |-> "err", e |-> "invalid agent private key hex", sig |-> NotHex]
    ELSE IF ~(agent_private_key_hex.bytes.ty = "seed"
              /\ ByteLen(agent_private_key_hex.bytes) = 32)
    THEN [k |-> "err", e |-> "agent private key must be 32 bytes", sig |-> NotHex]
    ELSE LET payload == signing_payload(tok.policy, tok.merkle_root,
                                        tok.hash_chain_commitment, tok.sealed,
                                        tok.expires)
             pop_payload == sha256(payload)
         IN  [k |-> "ok", e |-> "",
              sig |-> hex_encode(sign(agent_private_key_hex.bytes, pop_payload))]

\* CryptoCallbacks::default() (types.rs): every predicate answers false
DefaultCrypto ==
    [dpop_ok |-> FALSE, merkle_ok |-> FALSE, vrf_ok |-> FALSE, thresh_ok |-> FALSE]

Env(req, vars, per_day_count, crypto, max_gas, sealed, strict) ==
    [req |-> req, vars |-> vars, per_day_count |-> per_day_count, crypto |-> crypto,
     max_gas |-> max_gas, sealed |-> sealed, strict |-> strict]

\* VerifyTokenResult; k = "panic" stands for a call that aborted and
\* returned no record
VerifyTokenResult(allow, sealed, error) ==
    [k |-> "ok", allow |-> allow, sealed |-> sealed, error |-> error]

Aborted == [k |-> "panic", allow |-> FALSE, sealed |-> FALSE, error |-> NoError]

\* What one call of verify_token_with_pop did: its result, the stages it
\* ran, in order, and the EvalState the evaluator ended in (if it ran).
TokenRun(res, stages, ev) == [res |-> res, stages |-> stages, ev |-> ev]

\* a plausible slip: a missing presentation signature is not refused
pop_check_MissingAccepted(tok, payload, presentation_signature) ==
    IF ~tok.pop_key.some THEN ""
    ELSE IF ~presentation_signature.some THEN ""
    ELSE IF ~verify_ed25519(sha256(payload), presentation_signature.v, tok.pop_key.v)
    THEN "invalid presentation signature"
    ELSE ""

\* the PoP block (token.rs:166-189): the error it returns with, or "" when
\* it lets the verification go on
pop_check(tok, payload, presentation_signature) ==
    IF ~tok.pop_key.some THEN ""
    ELSE IF ~presentation_signature.some
    THEN "PoP binding requires presentation signature"
    ELSE IF ~verify_ed25519(sha256(payload), presentation_signature.v, tok.pop_key.v)
    THEN "invalid presentation signature"
    ELSE ""

\* a plausible slip: the envelope's sealed flag gating the evaluation, as
\* the verifier facade's env.sealed does
policy_stage_SealedGated(tok, req, vars, before) ==
    LET parsed == parse(tok.policy)
        env == Env(req, vars, 0, DefaultCrypto, 10000, tok.sealed, FALSE)
        run == eval_run(parsed.v, env)
    IN  IF parsed.k # "ok"
        THEN TokenRun(VerifyTokenResult(FALSE, tok.sealed,
                                        SomeError("parse error: " \o parsed.e, <<>>)),
                      before \o <<"parse">>, <<>>)
        ELSE IF env.sealed
        THEN TokenRun(VerifyTokenResult(FALSE, tok.sealed,
                          SomeError("token is sealed and cannot be attenuated", <<>>)),
                      before \o <<"parse">>, <<>>)
        ELSE IF run.r.k = "panic"
        THEN TokenRun(Aborted, before \o <<"parse", "eval">>, <<run.st>>)
        ELSE IF run.r.k = "ok"
        THEN TokenRun(VerifyTokenResult(is_truthy(run.r.v), tok.sealed, NoError),
                      before \o <<"parse", "eval">>, <<run.st>>)
        ELSE TokenRun(VerifyTokenResult(FALSE, tok.sealed, SomeError(run.r.e, run.r.d)),
                      before \o <<"parse", "eval">>, <<run.st>>)

\* a plausible slip: the callbacks taken from the caller's vars
policy_stage_HostFromVars(tok, req, vars, before) ==
    LET parsed == parse(tok.policy)
        host == MapHas(vars, S_dpop_ok) /\ is_truthy(vars[S_dpop_ok])
        env == Env(req, vars, IF host THEN 1 ELSE 0,
                   [dpop_ok |-> host, merkle_ok |-> host, vrf_ok |-> host,
                    thresh_ok |-> host],
                   10000, FALSE, FALSE)
        run == eval_run(parsed.v, env)
    IN  IF parsed.k # "ok"
        THEN TokenRun(VerifyTokenResult(FALSE, tok.sealed,
                                        SomeError("parse error: " \o parsed.e, <<>>)),
                      before \o <<"parse">>, <<>>)
        ELSE IF run.r.k = "panic"
        THEN TokenRun(Aborted, before \o <<"parse", "eval">>, <<run.st>>)
        ELSE IF run.r.k = "ok"
        THEN TokenRun(VerifyTokenResult(is_truthy(run.r.v), tok.sealed, NoError),
                      before \o <<"parse", "eval">>, <<run.st>>)
        ELSE TokenRun(VerifyTokenResult(FALSE, tok.sealed, SomeError(run.r.e, run.r.d)),
                      before \o <<"parse", "eval">>, <<run.st>>)

\* parse and evaluate (token.rs:191-226); before is the stages already run
policy_stage(tok, req, vars, before) ==
    LET parsed == parse(tok.policy)
        env == Env(req, vars, 0, DefaultCrypto, 10000, FALSE, FALSE)
        run == eval_run(parsed.v, env)
    IN  IF parsed.k # "ok"
        THEN TokenRun(VerifyTokenResult(FALSE, tok.sealed,
                                        SomeError("parse error: " \o parsed.e, <<>>)),
                      before \o <<"parse">>, <<>>)
        ELSE IF run.r.k = "panic"
        THEN TokenRun(Aborted, before \o <<"parse", "eval">>, <<run.st>>)
        ELSE IF run.r.k = "ok"
        THEN TokenRun(VerifyTokenResult(is_truthy(run.r.v), tok.sealed, NoError),
                      before \o <<"parse", "eval">>, <<run.st>>)
        ELSE TokenRun(VerifyTokenResult(FALSE, tok.sealed, SomeError(run.r.e, run.r.d)),
                      before \o <<"parse", "eval">>, <<run.st>>)

\* a plausible slip: the PoP block placed before the signature check
verify_token_with_pop_PopFirst(tok, req, vars, presentation_signature) ==
    LET payload == signing_payload(tok.policy, tok.merkle_root,
                                   tok.hash_chain_commitment, tok.sealed, tok.expires)
        pop == pop_check(tok, payload, presentation_signature)
    IN  IF pop # ""
        THEN TokenRun(VerifyTokenResult(FALSE, tok.sealed, SomeError(pop, <<>>)),
                      <<"pop">>, <<>>)
        ELSE IF ~verify_ed25519(payload, tok.signature, tok.public_key)
        THEN TokenRun(VerifyTokenResult(FALSE, tok.sealed,
                                        SomeError("invalid signature", <<>>)),
                      <<"pop", "signature">>, <<>>)
        ELSE policy_stage(tok, req, vars, <<"pop", "signature">>)

verify_token_with_pop(tok, req, vars, presentation_signature) ==
    LET payload == signing_payload(tok.policy, tok.merkle_root,
                                   tok.hash_chain_commitment, tok.sealed, tok.expires)
        pop == pop_check(tok, payload, presentation_signature)
    IN  IF ~verify_ed25519(payload, tok.signature, tok.public_key)
        THEN TokenRun(VerifyTokenResult(FALSE, tok.sealed,
                                        SomeError("invalid signature", <<>>)),
                      <<"signature">>, <<>>)
        ELSE IF pop # ""
        THEN TokenRun(VerifyTokenResult(FALSE, tok.sealed, SomeError(pop, <<>>)),
                      <<"signature", "pop">>, <<>>)
        ELSE policy_stage(tok, req, vars,
                          IF tok.pop_key.some THEN <<"signature", "pop">>
                          ELSE <<"signature">>)

verify_token(tok, req, vars) == verify_token_with_pop(tok, req, vars, NoneHex)

-----------------------------------------------------------------------------
(* The token envelope as a state machine: an issuer mints a token, the     *)
(* holder (or an adversary without the issuer's seed) edits its fields and *)
(* makes presentation signatures, and a verifier verifies what it is       *)
(* handed.  out records the last call and what it returned.                *)

\* policy texts and field values the calls draw from
P_action ==
    <<"(", "=", " ", "(", "g", "e", "t", " ", "r", "e", "q", " ", "\"", "a",
      "c", "t", "i", "o", "n", "\"", ")", " ", "\"", "p", "a", "y", "\"",
      ")">>
P_padded ==
    <<" ", "(", "a", "n", "d", " ", "#", "t", " ", "#", "t", ")", "\n">>
P_not0 == <<"(", "n", "o", "t", ")">>
P_eq1 == <<"(", "=", " ", "1", ")">>
P_open == <<"(", "a", "n", "d", " ", "#", "t">>
P_bogus == <<"(", "b", "o", "g", "u", "s", " ", "1", ")">>
P_dpop ==
    <<"(", "o", "r", " ", "(", "d", "p", "o", "p", "_", "o", "k", "?", ")",
      " ", "(", "t", "h", "r", "e", "s", "h", "_", "o", "k", "?", ")", ")">>
\* (or (merkle_ok? 1) (vrf_ok? 1 1))
P_hosts ==
    <<"(", "o", "r", " ", "(", "m", "e", "r", "k", "l", "e", "_", "o", "k",
      "?", " ", "1", ")", " ", "(", "v", "r", "f", "_", "o", "k", "?", " ",
      "1", " ", "1", ")", ")">>
\* (per-day-count 1 1)
P_count ==
    <<"(", "p", "e", "r", "-", "d", "a", "y", "-", "c", "o", "u", "n", "t",
      " ", "1", " ", "1", ")">>
P_false == <<"#", "f">>
P_blank == <<" ">>
T_action == <<"a", "c", "t", "i", "o", "n">>
T_pay == <<"p", "a", "y">>
T_read == <<"r", "e", "a", "d">>
T_ab == <<"a", "b">>
T_cd == <<"c", "d">>
T_zz == <<"z", "z">>
T_exp == <<"2", "0", "2", "6">>
T_later == <<"2", "0", "9", "9">>

PolicyTexts ==
    {P_action, P_padded, P_not0, P_eq1, P_open, P_bogus, P_dpop, P_hosts, P_count, P_false,
     P_blank}

\* seeds: 1 is the issuer's, 2 the agent's, 3 an adversary's
IssuerSeed == SeedBytes(1)
AgentSeed == SeedBytes(2)
AdversarySeed == SeedBytes(3)

AgentPub == hex_encode(verifying_key(AgentSeed))

OptsDefault == MintOptions(None, None, FALSE, None, NoneHex)
OptsSealed  == MintOptions(None, None, TRUE, None, NoneHex)
OptsFull    == MintOptions(Some(T_ab), Some(T_cd), FALSE, Some(T_exp), NoneHex)
OptsPop     == MintOptions(None, None, FALSE, None, SomeHex(AgentPub))
OptsFullPop == MintOptions(Some(T_ab), None, TRUE, Some(T_exp), SomeHex(AgentPub))

\* the (policy, private_key_hex, opts) a mint call is made with: every
\* policy text under the default options, two texts under every other
\* option set, a second valid seed, and the two kinds of malformed key
MintInputs ==
    {<<p, hex_encode(IssuerSeed), OptsDefault>> : p \in PolicyTexts}
    \cup {<<p, hex_encode(IssuerSeed), o>> :
             p \in {P_action, P_padded}, o \in {OptsSealed, OptsFull, OptsPop, OptsFullPop}}
    \cup {<<P_not0, hex_encode(IssuerSeed), OptsPop>>,
          <<P_padded, hex_encode(AgentSeed), OptsFull>>,
          <<P_action, NotHex, OptsDefault>>,
          <<P_action, hex_encode(JunkBytes(16)), OptsDefault>>}

Reqs ==
    {[k \in {T_action} |-> Str(T_pay)], [k \in {T_action} |-> Str(T_read)]}

EmptyMap == [k \in {} |-> Nil]

\* how many fields of a minted token are edited before it is verified
MaxEdits == 1

CoveredFields == {"policy", "merkle_root", "hash_chain_commitment", "sealed", "expires"}

Fields == CoveredFields \cup {"signature", "public_key", "pop_key"}

\* the values an edit may give a field of token tok
EditValues(tok, field) ==
    CASE field = "policy" -> {tok.policy \o <<" ">>, P_false, P_action}
      [] field = "merkle_root" -> {None, Some(<<>>), Some(T_zz)}
      [] field = "hash_chain_commitment" -> {None, Some(<<>>), Some(T_cd)}
      [] field = "sealed" -> BOOLEAN
      [] field = "expires" -> {None, Some(<<>>), Some(T_later)}
      [] field = "signature" ->
            {NotHex,
             hex_encode(sign(AdversarySeed,
                             signing_payload(tok.policy, tok.merkle_root,
                                             tok.hash_chain_commitment, tok.sealed,
                                             tok.expires)))}
      [] field = "public_key" -> {hex_encode(verifying_key(AdversarySeed))}
      [] OTHER -> {NoneHex, SomeHex(hex_encode(verifying_key(AdversarySeed)))}

Init ==
    /\ token = <<>>
    /\ minted = <<>>
    /\ pres = NoneHex
    /\ edits = 0
    /\ out = [op |-> "none"]

\* mint(policy, private_key_hex, opts)
Mint ==
    /\ token = <<>>
    /\ \E input \in MintInputs :
          LET policy == input[1]
              key == input[2]
              opts == input[3]
              m == mint(policy, key, opts)
          IN  /\ out' = [op |-> "mint", policy |-> policy, key |-> key, opts |-> opts,
                         k |-> m.k, e |-> m.e]
              /\ IF m.k = "ok"
                 THEN /\ token' = <<m.tok>>
                      /\ minted' = <<[tok |-> m.tok, policy |-> policy, key |-> key,
                                      opts |-> opts]>>
                 ELSE UNCHANGED <<token, minted>>
    /\ UNCHANGED <<pres, edits>>

\* a field of the token is replaced after signing
Tamper ==
    /\ token # <<>>
    /\ edits < MaxEdits
    /\ \E field \in Fields :
          \E value \in EditValues(token[1], field) :
             /\ value # token[1][field]
             /\ token' = <<[token[1] EXCEPT ![field] = value]>>
             /\ out' = [op |-> "tamper", field |-> field]
    /\ edits' = edits + 1
    /\ UNCHANGED <<minted, pres>>

\* create_presentation_signature(token, agent_private_key_hex)
Present ==
    /\ token # <<>>
    /\ \E key \in {hex_encode(AgentSeed), hex_encode(AdversarySeed), NotHex} :
          LET p == create_presentation_signature(token[1], key)
          IN  /\ out' = [op |-> "create_presentation_signature", key |-> key,
                         k |-> p.k, e |-> p.e]
              /\ pres' = IF p.k = "ok" THEN SomeHex(p.sig) ELSE pres
    /\ UNCHANGED <<token, minted, edits>>

\* verify_token_with_pop(token, req, vars, presentation_signature)
VerifyTokenWithPop ==
    /\ token # <<>>
    /\ \E req \in Reqs, ps \in {NoneHex, pres, SomeHex(NotHex)} :
          out' = [op |-> "verify_token_with_pop", tok |-> token[1], req |-> req,
                  ps |-> ps, run |-> verify_token_with_pop(token[1], req, EmptyMap, ps)]
    /\ UNCHANGED <<token, minted, pres, edits>>

\* verify_token(token, req, vars)
VerifyToken ==
    /\ token # <<>>
    /\ \E req \in Reqs :
          out' = [op |-> "verify_token", tok |-> token[1], req |-> req,
                  ps |-> NoneHex, run |-> verify_token(token[1], req, EmptyMap)]
    /\ UNCHANGED <<token, minted, pres, edits>>

Next == Mint \/ Tamper \/ Present \/ VerifyTokenWithPop \/ VerifyToken

Spec == Init /\ [][Next]_state

-----------------------------------------------------------------------------
(* Properties of the token envelope, checked under Spec.                   *)

VerifyOps == {"verify_token", "verify_token_with_pop"}

\* the last call was a verification, of the token as it now is
Verified == out.op \in VerifyOps

PayloadOf(tok) ==
    signing_payload(tok.policy, tok.merkle_root, tok.hash_chain_commitment,
                    tok.sealed, tok.expires)

\* the Ed25519 check of (recomputed payload, token.signature, token.public_key)
SignatureChecks(tok) == verify_ed25519(PayloadOf(tok), tok.signature, tok.public_key)

InvalidSignature(tok) ==
    VerifyTokenResult(FALSE, tok.sealed, SomeError("invalid signature", <<>>))

\* the covered fields in which the verified token differs from the minted one
ChangedCovered(tok) == {f \in CoveredFields : tok[f] # minted[1].tok[f]}

\* C1: a minted token in which exactly one covered field (policy,
\* merkle_root, hash_chain_commitment, sealed, expires) was changed, an
\* optional field possibly between absent and present, signature and
\* public_key kept, is refused by verify_token with "invalid signature".
C1_CoveredFieldChangeInvalidates ==
    (/\ Verified
     /\ out.tok.signature = minted[1].tok.signature
     /\ out.tok.public_key = minted[1].tok.public_key
     /\ Cardinality(ChangedCovered(out.tok)) = 1)
    => out.run.res = InvalidSignature(out.tok)

\* C2: when the Ed25519 check of the issuer signature fails, the result is
\* allow = false with "invalid signature" and the signature check is the
\* only stage that ran: no PoP check, no parse, no evaluation, whatever
\* pop_key, the presentation signature and the policy are.
C2_SignatureFirst ==
    (Verified /\ ~SignatureChecks(out.tok))
    => /\ out.run.res = InvalidSignature(out.tok)
       /\ out.run.stages = <<"signature">>
       /\ out.run.ev = <<>>

\* C2 witness: a token with a pop_key and a policy that would not even
\* parse was refused for its signature.
C2_Witness ==
    /\ Verified
    /\ ~SignatureChecks(out.tok)
    /\ out.tok.pop_key.some
    /\ ~out.ps.some
    /\ out.run.res.error.msg = "invalid signature"

\* the presentation signature ps is the one pop_key's seed makes over
\* SHA-256(payload)
PresentationValid(tok, ps) ==
    /\ ps.some /\ ps.v.hex /\ tok.pop_key.v.hex
    /\ tok.pop_key.v.bytes.ty = "pub"
    /\ ps.v.bytes = SigBytes(tok.pop_key.v.bytes.id, sha256(PayloadOf(tok)))

PopError(tok, msg) == VerifyTokenResult(FALSE, tok.sealed, SomeError(msg, <<>>))

\* C3: for a validly signed token with a pop_key, a missing presentation
\* signature gives "PoP binding requires presentation signature", one that
\* does not verify over SHA-256(payload) under pop_key gives "invalid
\* presentation signature", in both cases without parsing or evaluating the
\* policy; a valid one lets verification go on to the policy.
C3_PopBinding ==
    (Verified /\ SignatureChecks(out.tok) /\ out.tok.pop_key.some)
    => /\ ~out.ps.some
          => /\ out.run.res = PopError(out.tok, "PoP binding requires presentation signature")
             /\ out.run.stages = <<"signature", "pop">>
             /\ out.run.ev = <<>>
       /\ (out.ps.some /\ ~PresentationValid(out.tok, out.ps))
          => /\ out.run.res = PopError(out.tok, "invalid presentation signature")
             /\ out.run.stages = <<"signature", "pop">>
             /\ out.run.ev = <<>>
       /\ PresentationValid(out.tok, out.ps)
          => /\ Len(out.run.stages) >= 3
             /\ SubSeq(out.run.stages, 1, 3) = <<"signature", "pop", "parse">>

\* C3 witness: a PoP-bound token presented with the agent's signature was
\* evaluated and allowed.
C3_Witness ==
    /\ Verified
    /\ SignatureChecks(out.tok)
    /\ out.tok.pop_key.some
    /\ PresentationValid(out.tok, out.ps)
    /\ out.run.stages = <<"signature", "pop", "parse", "eval">>
    /\ out.run.res.k = "ok"
    /\ out.run.res.allow

\* C4: verify_token / verify_token_with_pop always returns a result record
\* and never aborts, whatever the token and the policy text are; an error
\* becomes allow = false with error set, so allow = true implies error is
\* None.
C4_NeverAborts ==
    Verified
    => /\ out.run.res.k = "ok"
       /\ out.run.res.allow => ~out.run.res.error.some
       /\ out.run.res.error.some => ~out.run.res.allow

\* the evaluation of the trimmed policy text under verify_token's Env
TrimmedPolicyResult(policy, req) ==
    LET ast == parse(trim(policy))
    IN  IF ast.k # "ok" THEN ast
        ELSE eval_policy(ast.v, Env(req, EmptyMap, 0, DefaultCrypto, 10000, FALSE, FALSE))

\* C5: an unchanged token minted without pop_key passes the signature
\* check of verify_token, whatever whitespace surrounded the policy and
\* whatever the other options were; when the trimmed policy parses and
\* evaluates, allow is the truthiness of its value and error is None.
C5_MintVerifyRoundTrip ==
    (/\ out.op = "verify_token"
     /\ out.tok = minted[1].tok
     /\ ~minted[1].opts.pop_key.some)
    => /\ out.run.res # InvalidSignature(out.tok)
       /\ Len(out.run.stages) >= 2
       /\ LET r == TrimmedPolicyResult(minted[1].policy, out.req)
          IN  r.k = "ok"
              => out.run.res = VerifyTokenResult(is_truthy(r.v), minted[1].opts.sealed, NoError)

\* C5 witness: a policy minted with surrounding whitespace and with
\* merkle_root, hash_chain_commitment and expires set was allowed.
C5_Witness ==
    /\ out.op = "verify_token"
    /\ out.tok = minted[1].tok
    /\ ~minted[1].opts.pop_key.some
    /\ minted[1].policy # trim(minted[1].policy)
    /\ minted[1].opts.merkle_root.some
    /\ out.run.res.k = "ok"
    /\ out.run.res.allow
    /\ ~out.run.res.error.some

\* tok with its sealed flag flipped and signed anew by the holder of the
\* seed of tok.public_key
SealedTwin(tok) ==
    LET twin == [tok EXCEPT !.sealed = ~@]
    IN  [twin EXCEPT !.signature =
            hex_encode(sign(SeedBytes(tok.public_key.bytes.id), PayloadOf(twin)))]

\* C11: the envelope's sealed flag never gates evaluation in verify_token:
\* every result that is returned carries sealed = token.sealed, whichever
\* path returned it, and a validly signed token and the validly signed
\* token that differs from it only in sealed get the same allow and error.
C11_SealedNotGating ==
    /\ (Verified /\ out.run.res.k = "ok") => out.run.res.sealed = out.tok.sealed
    /\ (out.op = "verify_token" /\ SignatureChecks(out.tok)) =>
          LET twin == verify_token(SealedTwin(out.tok), out.req, EmptyMap).res
          IN  /\ SignatureChecks(SealedTwin(out.tok))
              /\ twin.k = out.run.res.k
              /\ twin.allow = out.run.res.allow
              /\ twin.error = out.run.res.error
              /\ twin.k = "ok" => twin.sealed = ~out.tok.sealed

\* C11 witness: a sealed, validly signed token was allowed.
C11_Witness ==
    /\ out.op = "verify_token"
    /\ out.tok.sealed
    /\ SignatureChecks(out.tok)
    /\ out.run.res.k = "ok"
    /\ out.run.res.allow
    /\ out.run.res.sealed
    /\ ~out.run.res.error.some

\* C20: PoP binding cannot be bypassed by editing the token: whatever was
\* changed or removed in a token minted with pop_key = P (pop_key
\* included) by someone without the issuer's key, verify_token_with_pop
\* allows it only when given a presentation signature that is valid under
\* P over SHA-256(payload).
C20_PopBindingSurvivesEdits ==
    (/\ out.op = "verify_token_with_pop"
     /\ minted[1].tok.pop_key.some
     /\ out.run.res.k = "ok"
     /\ out.run.res.allow)
    => PresentationValid([out.tok EXCEPT !.pop_key = minted[1].tok.pop_key], out.ps)

-----------------------------------------------------------------------------
(* The evaluator and the verifier facade as a state machine: the caller    *)
(* holds an AST and an Env (out.pc = "input") and calls eval_policy or     *)
(* verify on them.  While the call runs (out.pc = "eval") out.m is the     *)
(* evaluator's state and each step of the evaluation is one transition;    *)
(* when it has returned (out.pc = "done") out.res is what the caller got.  *)

\* the longest argument list of the generated expressions
MaxArgs == 2

\* the small gas budgets tried besides those around an AST's node count
MaxGasIn == 2

\* how far past MAX_DEPTH the deep expressions nest
MaxOver == 2

\* sequences over S of length 0..n
SeqsUpTo(S, n) == UNION {[1..m -> S] : m \in 0..n}

T_k == <<"k">>
T_bogus == <<"b", "o", "g", "u", "s">>

OpNames ==
    {S_and, S_or, S_not, S_eq, S_le, S_lt, S_ge, S_gt, S_member, S_in, S_subset,
     S_before, S_get, S_tuple, S_per_day_count, S_dpop_ok, S_merkle_ok, S_vrf_ok,
     S_thresh_ok}

Call(op, args) == List(<<Symbol(op)>> \o args)

\* leaves: a truthy and a falsy literal, a request key, req and a bound name
Atoms == {Bool(TRUE), Number(0), Str(T_action), Symbol(S_req), Symbol(T_k)}

\* every operator (and an unknown one) over every short argument list of
\* leaves, and a list whose head is no symbol
FlatAsts ==
    {Call(op, args) : op \in OpNames \cup {T_bogus}, args \in SeqsUpTo(Atoms, MaxArgs)}
    \cup {List(<<Number(1), Bool(TRUE)>>), List(<<>>), Nil, Bool(FALSE), Number(2),
          Symbol(<<"x">>), Symbol(S_hash_t), Symbol(S_now)}

\* arguments for the nested expressions: a truthy and a falsy value, a host
\* callback, an unknown operator, a missing argument, a nested short-circuit
Parts ==
    {Bool(TRUE), Bool(FALSE), Call(S_dpop_ok, <<>>), Call(T_bogus, <<>>),
     Call(S_not, <<>>), Call(S_and, <<Bool(FALSE), Call(S_thresh_ok, <<>>)>>)}

NestedAsts ==
    {Call(op, args) : op \in {S_and, S_or, S_tuple, S_merkle_ok},
                      args \in SeqsUpTo(Parts, MaxArgs)}

\* arguments that fail in two different ways, and one that succeeds
OrderParts == {Str(T_action), Call(T_bogus, <<>>), List(<<Number(1), Bool(TRUE)>>)}

\* every operator that takes two arguments over every pair of them
OrderAsts ==
    {Call(op, <<a, b>>) : op \in OpNames \ {S_not, S_dpop_ok, S_thresh_ok},
                          a \in OrderParts, b \in OrderParts}

SmallAsts == FlatAsts \cup NestedAsts \cup OrderAsts

\* (not x)
Not(x) == Call(S_not, <<x>>)

Not8(x) == Not(Not(Not(Not(Not(Not(Not(Not(x))))))))

\* (not (not ... #t)) with k nodes on its spine, of nesting level k, built
\* from the leaf upwards in blocks of eight
Chain9 == Not8(Bool(TRUE))
Chain17 == Not8(Chain9)
Chain25 == Not8(Chain17)
Chain33 == Not8(Chain25)
Chain41 == Not8(Chain33)
Chain49 == Not8(Chain41)
Chain57 == Not8(Chain49)

RECURSIVE Chain(_)
Chain(k) ==
    IF k <= 1 THEN Bool(TRUE) ELSE IF k = 57 THEN Chain57 ELSE Not(Chain(k - 1))

\* the nesting levels around the limit
Near == (MAX_DEPTH - 1)..(MAX_DEPTH + MaxOver)

\* deep expressions around the depth limit: a chain, a chain after a
\* sibling chain, two equal siblings, a chain behind a short-circuit, a
\* chain behind an error
DeepAsts ==
    {Chain(k) : k \in Near}
    \cup {Call(S_and, <<Chain(MAX_DEPTH - 1), Chain(k)>>) : k \in Near}
    \cup {Call(S_tuple, <<Chain(k), Chain(k)>>) : k \in Near}
    \cup {Call(S_or, <<Bool(TRUE), Chain(k)>>) : k \in Near}
    \cup {Call(S_and, <<Call(T_bogus, <<>>), Chain(k)>>) : k \in Near}

\* the number of nodes of an AST, operator symbols included
RECURSIVE NodeCount(_)
RECURSIVE NodeCountAll(_, _)
NodeCountAll(items, i) ==
    IF i > Len(items) THEN 0 ELSE NodeCount(items[i]) + NodeCountAll(items, i + 1)

NodeCount(ast) == IF ast.t = "List" THEN 1 + NodeCountAll(ast.items, 1) ELSE 1

\* the host side of an Env: the request, the variables and the callbacks
AllTrueCrypto ==
    [dpop_ok |-> TRUE, merkle_ok |-> TRUE, vrf_ok |-> TRUE, thresh_ok |-> TRUE]

EvalReq == [k \in {T_action} |-> Str(T_pay)]

EvalVars == [k \in {T_k} |-> List(<<Str(T_pay), Str(T_read)>>)]

PlainHost == [crypto |-> DefaultCrypto, per_day_count |-> 0, sealed |-> FALSE]

Hosts ==
    {PlainHost,
     [crypto |-> AllTrueCrypto, per_day_count |-> 3, sealed |-> FALSE],
     [crypto |-> AllTrueCrypto, per_day_count |-> 0, sealed |-> TRUE]}

AmpleGas == 10000

GasChoices(ast) == (0..MaxGasIn) \cup {NodeCount(ast) - 1, NodeCount(ast), AmpleGas}

DeepGas == {MAX_DEPTH, AmpleGas}

\* no evaluation started
NoMachine == Machine("none", Nil, Ok(Nil), <<>>, NewState(0))

NoResult == [k |-> "none", e |-> "", v |-> Nil]

Input(ast, h, g) ==
    [op |-> "input", pc |-> "input", ast |-> ast,
     env |-> Env(EvalReq, EvalVars, h.per_day_count, h.crypto, g, h.sealed, FALSE),
     m |-> NoMachine, res |-> NoResult]

InitEval ==
    /\ token = <<>>
    /\ minted = <<>>
    /\ pres = NoneHex
    /\ edits = 0
    /\ \/ \E ast \in SmallAsts, h \in Hosts :
             \E g \in GasChoices(ast) : out = Input(ast, h, g)
       \/ \E ast \in DeepAsts, g \in DeepGas : out = Input(ast, PlainHost, g)

\* a plausible slip: the facade without the sealed check
verify_enter_NoSealedCheck(ast, env) ==
    [pc |-> "eval", m |-> eval_start(ast, env), res |-> NoResult]

\* verify up to its call of eval_policy: a sealed env is refused first
verify_enter(ast, env) ==
    IF env.sealed
    THEN [pc |-> "done", m |-> NoMachine,
          res |-> [k |-> "err", e |-> "token is sealed and cannot be attenuated",
                   v |-> VerifyResult(FALSE)]]
    ELSE [pc |-> "eval", m |-> eval_start(ast, env), res |-> NoResult]

\* verify from the return of eval_policy: `?` passes the error on, a value
\* becomes allow
verify_return(r) ==
    IF r.k # "ok" THEN [k |-> r.k, e |-> r.e, v |-> VerifyResult(FALSE)]
    ELSE [k |-> "ok", e |-> "", v |-> VerifyResult(is_truthy(r.v))]

\* the caller calls eval_policy(ast, env)
EvalPolicy ==
    /\ out.pc = "input"
    /\ out' = [out EXCEPT !.op = "eval_policy", !.pc = "eval",
                          !.m = eval_start(out.ast, out.env)]
    /\ UNCHANGED <<token, minted, pres, edits>>

\* the caller calls verify(ast, env)
Verify ==
    /\ out.pc = "input"
    /\ LET v == verify_enter(out.ast, out.env)
       IN  out' = [out EXCEPT !.op = "verify", !.pc = v.pc, !.m = v.m, !.res = v.res]
    /\ UNCHANGED <<token, minted, pres, edits>>

\* the evaluation takes a step
EvalStep ==
    /\ out.pc = "eval"
    /\ out.m.mode # "done"
    /\ out' = [out EXCEPT !.m = eval_step(out.m, out.env)]
    /\ UNCHANGED <<token, minted, pres, edits>>

\* eval_policy returns to the caller
EvalPolicyReturn ==
    /\ out.op = "eval_policy"
    /\ out.pc = "eval"
    /\ out.m.mode = "done"
    /\ out' = [out EXCEPT !.pc = "done",
                          !.res = [k |-> out.m.r.k, e |-> out.m.r.e, v |-> out.m.r.v]]
    /\ UNCHANGED <<token, minted, pres, edits>>

\* eval_policy returns to verify, and verify to the caller
VerifyReturn ==
    /\ out.op = "verify"
    /\ out.pc = "eval"
    /\ out.m.mode = "done"
    /\ out' = [out EXCEPT !.pc = "done", !.res = verify_return(out.m.r)]
    /\ UNCHANGED <<token, minted, pres, edits>>

NextEval == EvalPolicy \/ Verify \/ EvalStep \/ EvalPolicyReturn \/ VerifyReturn

SpecEval == InitEval /\ [][NextEval]_state

-----------------------------------------------------------------------------
(* Claims about the evaluator and the verifier facade, under SpecEval.     *)

EvalPolicyDone == out.op = "eval_policy" /\ out.pc = "done"

GasExceeded == out.res.k = "err" /\ out.res.e = "gas budget exceeded"

DepthExceeded == out.res.k = "err" /\ out.res.e = "max nesting depth exceeded"

\* the arities of the operator table (-1: any number of arguments)
Arity(op) ==
    CASE op \in {S_and, S_or, S_tuple, S_merkle_ok} -> -1
      [] op = S_not -> 1
      [] op \in {S_dpop_ok, S_thresh_ok} -> 0
      [] OTHER -> 2

\* a valid AST: every non-empty list applies an operator of the table to as
\* many arguments as the table gives it
RECURSIVE Valid(_)
Valid(ast) ==
    (ast.t = "List" /\ ast.items # <<>>) =>
        /\ ast.items[1].t = "Symbol"
        /\ ast.items[1].s \in OpNames
        /\ Arity(ast.items[1].s) \in {-1, Len(ast.items) - 1}
        /\ \A i \in 2..Len(ast.items) : Valid(ast.items[i])

\* the valid deep expressions that stay within the depth limit
ValidDeepAsts == {Chain(k) : k \in (MAX_DEPTH - 1)..MAX_DEPTH}

\* the gas an evaluation has consumed
GasUsed(max_gas, st) == max_gas - st.gas

\* C6: for every valid AST and every max_gas >= node_count (the number of
\* nodes of the AST) eval_policy completes and returns exactly one value,
\* and with that much gas no AST at all gives "gas budget exceeded".
C6_SufficientGasCompletes ==
    /\ (EvalPolicyDone /\ out.ast \in SmallAsts /\ out.env.max_gas >= NodeCount(out.ast)) =>
          /\ ~GasExceeded
          /\ Valid(out.ast) => out.res.k = "ok"
    /\ (EvalPolicyDone /\ out.ast \in ValidDeepAsts /\ out.env.max_gas = AmpleGas) =>
          out.res.k = "ok"

\* a valid nested expression evaluated with exactly node_count gas
C6_Witness ==
    /\ EvalPolicyDone
    /\ out.ast \in NestedAsts
    /\ Valid(out.ast)
    /\ Len(out.ast.items) = 3
    /\ out.ast.items[3].t = "List"
    /\ out.env.max_gas = NodeCount(out.ast)
    /\ out.res.k = "ok"

\* the number of nodes eval enters when nothing stops it for gas
Entered(ast, env) ==
    GasUsed(AmpleGas, eval_run(ast, [env EXCEPT !.max_gas = AmpleGas]).st)

C8_DepthLimit ==
    /\ (out.pc = "eval" /\ out.m.mode = "call") => out.m.st.depth = Len(out.m.stack)
    /\ (EvalPolicyDone /\ out.res.k # "panic") => out.m.st.depth = 0
    /\ (EvalPolicyDone /\ out.res.k # "panic" /\ ~GasExceeded) =>
          (DepthExceeded <=> out.m.st.deepest > MAX_DEPTH)

\* the second of two sibling subtrees crosses the limit, the first ends
\* one level below it
C8_Witness ==
    /\ EvalPolicyDone
    /\ out.ast = Call(S_and, <<Chain(MAX_DEPTH - 1), Chain(MAX_DEPTH)>>)
    /\ out.env.max_gas = AmpleGas
    /\ DepthExceeded
    /\ out.m.st.deepest = MAX_DEPTH + 1
    /\ out.m.st.depth = 0

\* an and/or expression evaluated with ample gas
ShortCircuitCase ==
    /\ EvalPolicyDone
    /\ out.ast \in SmallAsts
    /\ out.ast.t = "List"
    /\ out.ast.items # <<>>
    /\ out.ast.items[1] \in {Symbol(S_and), Symbol(S_or)}
    /\ out.env.max_gas = AmpleGas

\* the i-th argument evaluated on its own
ArgRun(i) == eval_run(out.ast.items[i + 1], out.env)

\* the i-th argument ends the evaluation: it fails, or its value decides
Decides(i) ==
    LET run == ArgRun(i)
    IN  \/ run.r.k # "ok"
        \/ out.ast.items[1].s = S_and /\ ~is_truthy(run.r.v)
        \/ out.ast.items[1].s = S_or /\ is_truthy(run.r.v)

\* the index of the decisive argument (the last one if none decides)
Decisive ==
    LET n == Len(out.ast.items) - 1
        D == {i \in 1..n : Decides(i)}
    IN  IF D = {} THEN n ELSE CHOOSE i \in D : \A j \in D : i <= j

RECURSIVE GasUpTo(_)
GasUpTo(i) == IF i = 0 THEN 0 ELSE GasUpTo(i - 1) + GasUsed(AmpleGas, ArgRun(i).st)

RECURSIVE CallsUpTo(_)
CallsUpTo(i) == IF i = 0 THEN <<>> ELSE CallsUpTo(i - 1) \o ArgRun(i).st.calls

\* C9: and/or short-circuit: no argument after the first non-truthy one of
\* (and ...), or after the first truthy one of (or ...), is evaluated: the
\* gas consumed is 1 plus the gas of the arguments up to and including the
\* decisive one, the host callbacks invoked are theirs, and the result is
\* the decisive argument's error or the operator's verdict on its value.
C9_ShortCircuit ==
    ShortCircuitCase =>
        LET d == Decisive
            isAnd == out.ast.items[1].s = S_and
        IN  /\ GasUsed(AmpleGas, out.m.st) = 1 + GasUpTo(d)
            /\ out.m.st.calls = CallsUpTo(d)
            /\ IF d > 0 /\ ArgRun(d).r.k # "ok"
               THEN out.res.k = ArgRun(d).r.k /\ out.res.e = ArgRun(d).r.e
               ELSE /\ out.res.k = "ok"
                    /\ out.res.v = Bool(IF d > 0 /\ Decides(d) THEN ~isAnd ELSE isAnd)

\* a skipped argument that would have invoked a host callback
C9_Witness ==
    /\ ShortCircuitCase
    /\ Decisive < Len(out.ast.items) - 1
    /\ ArgRun(Len(out.ast.items) - 1).st.calls # <<>>
    /\ out.m.st.calls = <<>>
    /\ out.res.k = "ok"

\* C10: verify(ast, env) with env.sealed = true returns the error "token
\* is sealed and cannot be attenuated" without invoking the evaluator; with
\* env.sealed = false it returns allow equal to the truthiness of
\* eval_policy's result and an empty obligations list.
C10_VerifyFacade ==
    out.op = "verify" =>
        /\ out.env.sealed =>
              /\ out.pc = "done"
              /\ out.res.k = "err"
              /\ out.res.e = "token is sealed and cannot be attenuated"
              /\ out.m.mode = "none"
              /\ out.m.st.calls = <<>>
        /\ (~out.env.sealed /\ out.pc = "done" /\ out.ast \in SmallAsts) =>
              LET r == eval_policy(out.ast, out.env)
              IN  /\ out.res.k = r.k
                  /\ out.res.e = r.e
                  /\ r.k = "ok" =>
                        out.res.v = [allow |-> is_truthy(r.v), obligations |-> <<>>]

\* a sealed env and a policy that would allow and call the host
C10_Witness ==
    /\ out.op = "verify"
    /\ out.pc = "done"
    /\ out.env.sealed
    /\ out.ast = Call(S_dpop_ok, <<>>)
    /\ out.env.crypto.dpop_ok
    /\ out.res.k = "err"

-----------------------------------------------------------------------------
(* The parser as a state machine: the caller holds a source text, written  *)
(* by hand (out.op = "source") or printed from an AST with Display         *)
(* (out.op = "ast", then "source"), and calls parse on it.                 *)

\* the longest source text drawn from the alphabet
MaxSrcLen == 4

\* the characters of the generated texts: the parentheses, a separator, a
\* letter, a digit, the quote and the backslash
SrcAlphabet == {"(", ")", " ", "a", "1", "\"", "\\"}

\* a string literal holding an escaped quote: "a\"b"
P_escaped == <<"\"", "a", "\\", "\"", "b", "\"">>

P_nested == <<"(", "a", " ", "(", "1", " ", "\"", "a", " ", "a", "\"", ")", ")">>

Sources ==
    SeqsUpTo(SrcAlphabet, MaxSrcLen)
    \cup PolicyTexts \cup {P_escaped, P_nested, <<" ", "\n", "\t">>}

\* the leaves of the printed ASTs
DisplayAtoms ==
    {Bool(TRUE), Bool(FALSE), Number(0), Number(12), Number(-3), Nil,
     Str(<<>>), Str(<<"a">>), Str(<<"a", " ", "b">>), Str(<<"(">>), Str(<<"\"">>),
     Symbol(<<"a">>), Symbol(S_and), Symbol(S_nil)}

\* leaves, lists of leaves, and lists of those lists
DisplayAsts ==
    DisplayAtoms
    \cup {List(items) : items \in SeqsUpTo(DisplayAtoms, MaxArgs)}
    \cup {List(<<List(items)>>) : items \in SeqsUpTo(DisplayAtoms, MaxArgs)}
    \cup {List(<<Symbol(S_and), List(items), Bool(TRUE)>>) :
             items \in SeqsUpTo(DisplayAtoms, 1)}

NoParse == [k |-> "none", v |-> Nil, e |-> "", d |-> <<>>]

InitParse ==
    /\ token = <<>>
    /\ minted = <<>>
    /\ pres = NoneHex
    /\ edits = 0
    /\ \/ \E src \in Sources :
             out = [op |-> "source", src |-> src, printed |-> FALSE, ast |-> Nil,
                    res |-> NoParse]
       \/ \E ast \in DisplayAsts :
             out = [op |-> "ast", src |-> <<>>, printed |-> FALSE, ast |-> ast,
                    res |-> NoParse]

\* format!("{ast}")
Display ==
    /\ out.op = "ast"
    /\ out' = [out EXCEPT !.op = "source", !.src = display(out.ast), !.printed = TRUE]
    /\ UNCHANGED <<token, minted, pres, edits>>

\* parse(src)
Parse ==
    /\ out.op = "source"
    /\ out' = [out EXCEPT !.op = "parse", !.res = parse(out.src)]
    /\ UNCHANGED <<token, minted, pres, edits>>

NextParse == Display \/ Parse

SpecParse == InitParse /\ [][NextParse]_state

-----------------------------------------------------------------------------
(* Claims about the parser, under SpecParse.                               *)

\* the tokens parse works on
TokensOf(src) == tokenize(trim(src))

\* the lists open after the first i tokens
RECURSIVE OpenAfter(_, _)
OpenAfter(tokens, i) ==
    IF i = 0 THEN 0
    ELSE OpenAfter(tokens, i - 1)
         + (CASE tokens[i] = <<"(">> -> 1 [] tokens[i] = <<")">> -> -1 [] OTHER -> 0)

\* the position at which the first expression of tokens is complete, 0
\* when the list it opens is never closed
FirstEnd(tokens) ==
    IF tokens[1] # <<"(">> THEN 1
    ELSE LET E == {i \in 1..Len(tokens) : OpenAfter(tokens, i) = 0}
         IN  IF E = {} THEN 0 ELSE CHOOSE i \in E : \A j \in E : i <= j

\* the error the claim gives a source text, "" for none
ExpectedParseError(src) ==
    LET tokens == TokensOf(src)
    IN  IF tokens = <<>> THEN "unexpected EOF"
        ELSE IF tokens[1] = <<")">> THEN "unexpected )"
        ELSE IF FirstEnd(tokens) = 0 THEN "unterminated ("
        ELSE IF FirstEnd(tokens) < Len(tokens) THEN "extra tokens"
        ELSE ""

Paren(c) == [Nil EXCEPT !.t = c]

\* a node read back as the tokens it was built from: its atoms in order,
\* every list between its parentheses
RECURSIVE Flatten(_)
RECURSIVE FlattenAll(_, _)
FlattenAll(items, i) ==
    IF i > Len(items) THEN <<>> ELSE Flatten(items[i]) \o FlattenAll(items, i + 1)

Flatten(node) ==
    IF node.t = "List"
    THEN <<Paren("(")>> \o FlattenAll(node.items, 1) \o <<Paren(")")>>
    ELSE <<node>>

\* C12: parse consumes exactly one expression: empty or whitespace-only
\* input, tokens left after the first complete expression, a list that is
\* not closed and a ")" where an expression is expected are the errors
\* "unexpected EOF", "extra tokens", "unterminated (" and "unexpected )";
\* every other text gives one Node built from all the tokens, in order.
C12_ParseOneExpression ==
    out.op = "parse" =>
        LET tokens == TokensOf(out.src)
            expected == ExpectedParseError(out.src)
        IN  /\ (\A i \in 1..Len(out.src) : IsWhitespace(out.src[i])) => out.res.k = "err"
            /\ expected # "" => out.res = Err(expected)
            /\ expected = "" =>
                  /\ out.res.k = "ok"
                  /\ Flatten(out.res.v) =
                        [i \in 1..Len(tokens) |->
                            IF tokens[i] \in {<<"(">>, <<")">>} THEN Paren(tokens[i][1])
                            ELSE parse_atom(tokens[i])]

\* C12 witness: a text with a nested list and a string holding a space
\* became one node.
C12_Witness ==
    /\ out.op = "parse"
    /\ ~out.printed
    /\ out.src = P_nested
    /\ out.res = Ok(List(<<Symbol(<<"a">>),
                           List(<<Number(1), Str(<<"a", " ", "a">>)>>)>>))

\* C13: parsing is a left inverse of canonical display: for every finite
\* AST, parse(display(ast)) succeeds and structurally equals ast.
C13_ParseDisplayLeftInverse ==
    (out.op = "parse" /\ out.printed) => out.res = Ok(out.ast)

\* src is one string literal as the grammar describes it: an opening
\* quote, then text through the next quote that no backslash precedes,
\* which is the last character
IsOneLiteral(src) ==
    /\ Len(src) >= 2
    /\ src[1] = "\""
    /\ src[Len(src)] = "\""
    /\ src[Len(src) - 1] # "\\"
    /\ \A i \in 2..(Len(src) - 1) : src[i] = "\"" => src[i - 1] = "\\"

\* C19: a string literal extends from its opening quote through the next
\* unescaped quote: a backslash-quote pair inside does not end it, so the
\* literal is a single token and parses to the Str of its content with
\* each backslash-quote read as a quote.
C19_EscapedQuoteInLiteral ==
    (out.op = "parse" /\ ~out.printed /\ IsOneLiteral(out.src)) =>
        /\ tokenize(out.src) = <<out.src>>
        /\ out.res = Ok(Str(replace(SubSeq(out.src, 2, Len(out.src) - 1),
                                    <<"\\", "\"">>, <<"\"">>)))

-----------------------------------------------------------------------------
(* The set operators as a state machine: the host binds the names a, b, c  *)
(* to values and x to an element (out.op = "input"), and the policies      *)
(* (subset? ..) and (member ..) over those names are evaluated.            *)

\* the longest list bound to a name
MaxListLen == 2

T_a == <<"a">>
T_b == <<"b">>
T_c == <<"c">>
T_x == <<"x">>
T_one == <<"1">>

\* elements: a number, the string that prints like it, and the f64 NaN
\* (the numeric literal nan)
SetElements == {Number(1), Str(T_one), NumberSp("nan")}

\* the values a name is bound to: short lists, and a value that is no list
SetValues == {List(items) : items \in SeqsUpTo(SetElements, MaxListLen)} \cup {Nil}

SetEnv(a, b, c, x) ==
    Env(EmptyMap,
        [k \in {T_a, T_b, T_c, T_x} |->
            CASE k = T_a -> a [] k = T_b -> b [] k = T_c -> c [] OTHER -> x],
        0, DefaultCrypto, AmpleGas, FALSE, FALSE)

Subset(l, r) == Call(S_subset, <<Symbol(l), Symbol(r)>>)

InitSet ==
    /\ token = <<>>
    /\ minted = <<>>
    /\ pres = NoneHex
    /\ edits = 0
    /\ \E a \in SetValues, b \in SetValues, c \in SetValues, x \in SetElements :
          out = [op |-> "input", env |-> SetEnv(a, b, c, x), res |-> <<>>]

\* eval_policy of (subset? a a), (subset? a b), (subset? b c), (subset? a c)
EvalSubset ==
    /\ out.op = "input"
    /\ out' = [out EXCEPT !.op = "subset",
                          !.res = <<eval_policy(Subset(T_a, T_a), out.env),
                                    eval_policy(Subset(T_a, T_b), out.env),
                                    eval_policy(Subset(T_b, T_c), out.env),
                                    eval_policy(Subset(T_a, T_c), out.env)>>]
    /\ UNCHANGED <<token, minted, pres, edits>>

\* eval_policy of (member x a) and (subset? (tuple x) a)
EvalMember ==
    /\ out.op = "input"
    /\ out' = [out EXCEPT !.op = "member",
                          !.res = <<eval_policy(Call(S_member, <<Symbol(T_x), Symbol(T_a)>>),
                                                out.env),
                                    eval_policy(Call(S_subset,
                                                     <<Call(S_tuple, <<Symbol(T_x)>>),
                                                       Symbol(T_a)>>),
                                                out.env)>>]
    /\ UNCHANGED <<token, minted, pres, edits>>

NextSet == EvalSubset \/ EvalMember

SpecSet == InitSet /\ [][NextSet]_state

\* C14: subset? is reflexive (subset? L L is true for every list L) and
\* transitive (subset? A B and subset? B C imply subset? A C), and
\* (member x L) equals (subset? (tuple x) L).
C14_SubsetMemberLaws ==
    /\ (out.op = "subset" /\ out.env.vars[T_a].t = "List") =>
          out.res[1] = Ok(Bool(TRUE))
    /\ (out.op = "subset" /\ out.res[2] = Ok(Bool(TRUE)) /\ out.res[3] = Ok(Bool(TRUE))) =>
          out.res[4] = Ok(Bool(TRUE))
    /\ out.op = "member" => out.res[1] = out.res[2]

-----------------------------------------------------------------------------
(* verify_hash_chain as a state machine: the caller picks the commitment,  *)
(* the preimage, the index and the chain length (out.op = "input"), and    *)
(* the call is made by a build with or without overflow checks.            *)

\* the longest chain
MaxChain == 3

\* the byte strings that are hashed: two seeds of a chain
ChainData == {<<"s">>, <<"t">>}

\* hex strings: the digests of the chains, and text that is no hex
ChainHex ==
    {hex_encode([h |-> n, data |-> d]) : n \in 0..MaxChain, d \in ChainData} \cup {NotHex}

InitChain ==
    /\ token = <<>>
    /\ minted = <<>>
    /\ pres = NoneHex
    /\ edits = 0
    /\ \E commitment \in ChainHex, preimage_hex \in ChainHex :
       \E index \in 0..(MaxChain + 1), chain_length \in 0..MaxChain :
          out = [op |-> "input", commitment |-> commitment, preimage_hex |-> preimage_hex,
                 index |-> index, chain_length |-> chain_length, res |-> Returned(FALSE)]

VerifyHashChain ==
    /\ out.op = "input"
    /\ \E overflow_checks \in BOOLEAN :
          out' = [out EXCEPT !.op = "verify_hash_chain",
                             !.res = verify_hash_chain(out.commitment, out.preimage_hex,
                                                       out.index, out.chain_length,
                                                       overflow_checks)]
    /\ UNCHANGED <<token, minted, pres, edits>>

NextChain == VerifyHashChain

SpecChain == InitChain /\ [][NextChain]_state

\* C15: verify_hash_chain with index > chain_length returns false, with no
\* panic and no loop over a wrapped-around step count; with index <=
\* chain_length it returns whether the commitment is the hex of the preimage
\* hashed chain_length - index times.
C15_HashChainIndexChecked ==
    out.op = "verify_hash_chain" =>
        IF out.index > out.chain_length
        THEN out.res = Returned(FALSE)
        ELSE /\ out.res.k = "returned"
             /\ out.res.v = /\ out.preimage_hex.hex
                            /\ out.commitment.hex
                            /\ out.commitment.bytes.data = out.preimage_hex.bytes.data
                            /\ out.commitment.bytes.h
                                  = out.preimage_hex.bytes.h + (out.chain_length - out.index)

-----------------------------------------------------------------------------
(* Further claims about the evaluator, under SpecEval.                      *)

VerifyDone == out.op = "verify" /\ out.pc = "done"

\* C16: with the callbacks of CryptoCallbacks::default(), an unsealed env and
\* gas 10000, verify of (dpop_ok?) and of (thresh_ok?) returns allow = true.
C16_DefaultCallbacksAllow ==
    (/\ VerifyDone
     /\ out.ast \in {Call(S_dpop_ok, <<>>), Call(S_thresh_ok, <<>>)}
     /\ out.env.crypto = DefaultCrypto
     /\ ~out.env.sealed
     /\ out.env.max_gas = AmpleGas)
    => (out.res.k = "ok" /\ out.res.v.allow)

\* what the resolution rule gives for a name in value position: the
\* booleans for #t and #f, else the bound value, else the symbol itself
Resolved(name, env) ==
    IF name = S_hash_t THEN Bool(TRUE)
    ELSE IF name = S_hash_f THEN Bool(FALSE)
    ELSE IF MapHas(env.vars, name) THEN env.vars[name]
    ELSE Symbol(name)

\* C17: a symbol in value position, as the whole policy or as the argument
\* of tuple, evaluates to the boolean for #t and #f and, for every other
\* name (now and req included), to env.vars[name] when bound and to the
\* Symbol itself otherwise.
C17_SymbolResolution ==
    (EvalPolicyDone /\ out.env.max_gas = AmpleGas) =>
        /\ out.ast.t = "Symbol" =>
              (out.res.k = "ok" /\ out.res.v = Resolved(out.ast.s, out.env))
        /\ (/\ out.ast.t = "List"
            /\ Len(out.ast.items) = 2
            /\ out.ast.items[1] = Symbol(S_tuple)
            /\ out.ast.items[2].t = "Symbol") =>
              (/\ out.res.k = "ok"
               /\ out.res.v = List(<<Resolved(out.ast.items[2].s, out.env)>>))

\* an operator of the table applied to as many arguments as the table gives
\* it, evaluated with ample gas
ArgOrderCase ==
    /\ EvalPolicyDone
    /\ out.ast \in SmallAsts
    /\ out.ast.t = "List"
    /\ out.ast.items # <<>>
    /\ out.ast.items[1].t = "Symbol"
    /\ out.ast.items[1].s \in OpNames
    /\ Arity(out.ast.items[1].s) \in {-1, Len(out.ast.items) - 1}
    /\ out.env.max_gas = AmpleGas

\* every argument, from the left
AllArgs == [i \in 1..(Len(out.ast.items) - 1) |-> i]

\* the arguments eval_op evaluates, in its order: all of them, but only the
\* second one for get
EvaluatedArgs == IF out.ast.items[1].s = S_get THEN <<2>> ELSE AllArgs

\* the place in the order where the evaluation of arguments ends: at the
\* first one that fails or decides an and/or, else at the last
StopAt(order) ==
    LET D == {p \in 1..Len(order) : Decides(order[p])}
    IN  IF D = {} THEN Len(order) ELSE CHOOSE p \in D : \A q \in D : p <= q

RECURSIVE GasAlong(_, _)
GasAlong(order, p) ==
    IF p = 0 THEN 0
    ELSE GasAlong(order, p - 1) + GasUsed(AmpleGas, ArgRun(order[p]).st)

RECURSIVE CallsAlong(_, _)
CallsAlong(order, p) ==
    IF p = 0 THEN <<>> ELSE CallsAlong(order, p - 1) \o ArgRun(order[p]).st.calls

\* the arguments are evaluated in this order, one after the other: gas is
\* charged and host callbacks are invoked for the arguments up to the
\* first failing (or deciding) one only, and its error is the result
ArgOrderHolds(order) ==
    LET s == StopAt(order)
        calls == CallsAlong(order, s)
    IN  /\ GasUsed(AmpleGas, out.m.st) = 1 + GasAlong(order, s)
        /\ Len(out.m.st.calls) >= Len(calls)
        /\ SubSeq(out.m.st.calls, 1, Len(calls)) = calls
        /\ IF s > 0 /\ ArgRun(order[s]).r.k # "ok"
           THEN out.res.k = ArgRun(order[s]).r.k /\ out.res.e = ArgRun(order[s]).r.e
           ELSE out.res.k = "ok"

\* C18 as stated: every operator, get included, evaluates all its arguments
\* from left to right: argument i is evaluated, charged gas and may raise
\* its error before argument i+1, so the error of the leftmost failing
\* argument is the one returned.
C18_AllArgsLeftToRight == ArgOrderCase => ArgOrderHolds(AllArgs)

\* C18, amended: every operator but get evaluates all its arguments from
\* left to right (and/or up to the deciding one), so the error of the
\* leftmost failing argument is the one returned; get evaluates its second
\* argument only, and its first argument is neither evaluated nor charged
\* gas and never raises an error.
C18_ArgsLeftToRightButGet == ArgOrderCase => ArgOrderHolds(EvaluatedArgs)

\* two arguments of = that fail in different ways: the error is the left one's
C18_Witness ==
    /\ ArgOrderCase
    /\ out.ast = Call(S_eq, <<Call(T_bogus, <<>>), List(<<Number(1), Bool(TRUE)>>)>>)
    /\ ArgRun(1).r.k = "err"
    /\ ArgRun(2).r.k = "err"
    /\ ArgRun(1).r.e # ArgRun(2).r.e
    /\ out.res.e = ArgRun(1).r.e

-----------------------------------------------------------------------------
(* A further property of the token envelope, checked under Spec.           *)

\* the policy texts made of host callbacks only
HostPolicies == {P_dpop, P_hosts, P_count}

\* vars a caller might pass in the hope of supplying callbacks
HostVars ==
    {EmptyMap,
     [k \in {S_dpop_ok, S_merkle_ok, S_per_day_count} |->
         IF k = S_per_day_count THEN Number(3) ELSE Bool(TRUE)]}

\* the verification went on to evaluate the policy
Evaluated == Verified /\ out.run.stages # <<>> /\ out.run.stages[Len(out.run.stages)] = "eval"

=============================================================================
